---------------------------- MODULE Spec2Model ----------------------------
(***************************************************************************)
(* Model of src/util/MongoBinaryDownloadUrl.js: the class that turns       *)
(* {version, platform, arch, ssl, os} into the archive name and download   *)
(* URL of a MongoDB binary.                                                *)
(*                                                                         *)
(* Representation.  The strings the code only compares for equality or     *)
(* embeds verbatim (raw platform, raw arch, version, the produced names)   *)
(* are TLA+ strings.  The strings the code inspects character by character *)
(* (os.dist, os.release: regular expressions, split, parseInt, parseFloat) *)
(* are sequences of characters: a one-character string for an ASCII        *)
(* character ("\t", "\n", "\f", "\r" for the control characters), and the   *)
(* string "U+XXXX" for the character of that code point otherwise.         *)
(* JavaScript's undefined is the value UNDEF for a release and NoOS for a  *)
(* descriptor.                                                             *)
(***************************************************************************)
EXTENDS Integers, Sequences, FiniteSets, TLC

(***************************************************************************)
(* Bound: the number of getArchiveName/getDownloadUrl calls made on the    *)
(* instance.                                                               *)
(***************************************************************************)
MaxCalls == 2

MaxGetos == 1

---------------------------------------------------------------------------
(* JavaScript values and string primitives                                 *)

UNDEF == <<"undefined">>

NoOS == [dist |-> UNDEF, release |-> UNDEF]

\* JavaScript truthiness of an optional string: undefined and '' are falsy.
TruthyStr(s) == s # UNDEF /\ s # <<>>

\* JavaScript truthiness of an optional object.
TruthyOS(os) == os # NoOS

UpperChars ==
  <<"A", "B", "C", "D", "E", "F", "G", "H", "I", "J", "K", "L", "M",
    "N", "O", "P", "Q", "R", "S", "T", "U", "V", "W", "X", "Y", "Z">>

LowerChars ==
  <<"a", "b", "c", "d", "e", "f", "g", "h", "i", "j", "k", "l", "m",
    "n", "o", "p", "q", "r", "s", "t", "u", "v", "w", "x", "y", "z">>

ToLower(c) ==
  IF \E i \in 1..26 : UpperChars[i] = c
  THEN LowerChars[CHOOSE i \in 1..26 : UpperChars[i] = c]
  ELSE c

\* String(x): what a regular expression or parseInt sees of an argument.
ToStr(s) ==
  IF s = UNDEF THEN <<"u", "n", "d", "e", "f", "i", "n", "e", "d">> ELSE s

\* /pat/i.test(s): pat occurs in s, letters compared without case.
RegexTestCI(pat, s) ==
  LET str == ToStr(s) IN
  \E i \in 1..(Len(str) - Len(pat) + 1) :
     \A j \in 1..Len(pat) : ToLower(str[i + j - 1]) = ToLower(pat[j])

\* /^pat/.test(s): s begins with pat, case kept.
RegexTestPrefix(pat, s) ==
  LET str == ToStr(s) IN
  /\ Len(str) >= Len(pat)
  /\ \A j \in 1..Len(pat) : str[j] = pat[j]

DigitChars == <<"0", "1", "2", "3", "4", "5", "6", "7", "8", "9">>

IsDigit(c) == \E i \in 1..10 : DigitChars[i] = c

DigitVal(c) == (CHOOSE i \in 1..10 : DigitChars[i] = c) - 1

\* The characters parseInt and parseFloat skip at the start of a string:
\* WhiteSpace and LineTerminator of ECMAScript (TAB, LF, VT, FF, CR, SP,
\* NBSP, the Unicode space separators, LS, PS, BOM).
WhiteSpaceChars ==
  { "\t", "\n", "\f", "\r", " ", "U+000B", "U+00A0", "U+1680",
    "U+2000", "U+2001", "U+2002", "U+2003", "U+2004", "U+2005", "U+2006",
    "U+2007", "U+2008", "U+2009", "U+200A", "U+2028", "U+2029", "U+202F",
    "U+205F", "U+3000", "U+FEFF" }

\* Index of the first character of s at or after i that is not white space.
SkipWs(s, i) ==
  CHOOSE k \in i..(Len(s) + 1) :
     /\ \A m \in i..(k - 1) : s[m] \in WhiteSpaceChars
     /\ (k > Len(s) \/ s[k] \notin WhiteSpaceChars)

\* Number of consecutive digits of s starting at index i.
DigitRun(s, i) ==
  CHOOSE n \in 0..(Len(s) - i + 1) :
     /\ \A m \in i..(i + n - 1) : IsDigit(s[m])
     /\ (i + n > Len(s) \/ ~IsDigit(s[i + n]))

RECURSIVE DigitsValue(_)
DigitsValue(ds) ==
  IF ds = <<>> THEN 0
  ELSE 10 * DigitsValue(SubSeq(ds, 1, Len(ds) - 1)) + DigitVal(ds[Len(ds)])

\* Number of leading "0" of a digit sequence.
LeadingZeros(ds) ==
  CHOOSE n \in 0..Len(ds) :
     /\ \A m \in 1..n : ds[m] = "0"
     /\ (n = Len(ds) \/ ds[n + 1] # "0")

\* Number of trailing "0" of a digit sequence.
TrailingZeros(ds) ==
  CHOOSE n \in 0..Len(ds) :
     /\ \A m \in (Len(ds) - n + 1)..Len(ds) : ds[m] = "0"
     /\ (n = Len(ds) \/ ds[Len(ds) - n] # "0")

StripLeadingZeros(ds) == SubSeq(ds, LeadingZeros(ds) + 1, Len(ds))

\* A number parseInt returns: NaN, or a sign and the decimal digits of the
\* magnitude without leading zeros (<<>> for 0).  The digits are kept, not
\* their value, so that no magnitude overflows; above 2^53 the code holds
\* the nearest double, which compares with the small constants of the
\* code as the digits do.
NaN == [nan |-> TRUE, neg |-> FALSE, mag |-> <<>>]

Num(neg, ds) == [nan |-> FALSE, neg |-> neg, mag |-> StripLeadingZeros(ds)]

\* The magnitude has at most nine digits: its value is below 10^9.
NumSmall(x) == Len(x.mag) <= 9

\* The value of a small number.
NumVal(x) == IF x.neg THEN 0 - DigitsValue(x.mag) ELSE DigitsValue(x.mag)

\* x > k, x < k, x >= k, x === k for a parseInt result x and a constant k
\* with |k| < 10^9; every comparison with NaN is false.
NumGt(x, k) == ~x.nan /\ (IF NumSmall(x) THEN NumVal(x) > k ELSE ~x.neg)

NumLt(x, k) == ~x.nan /\ (IF NumSmall(x) THEN NumVal(x) < k ELSE x.neg)

NumGe(x, k) == ~x.nan /\ (IF NumSmall(x) THEN NumVal(x) >= k ELSE ~x.neg)

NumEq(x, k) == ~x.nan /\ NumSmall(x) /\ NumVal(x) = k

\* parseInt(s, 10): leading white space, an optional sign, then the longest
\* run of digits; NaN when there is no digit.  parseInt(undefined) is NaN.
ParseInt(s) ==
  LET str  == ToStr(s)
      b    == SkipWs(str, 1)
      sgn  == b <= Len(str) /\ str[b] \in {"-", "+"}
      d    == IF sgn THEN b + 1 ELSE b
      n    == DigitRun(str, d)
  IN IF n = 0 THEN NaN
     ELSE Num(sgn /\ str[b] = "-", SubSeq(str, d, d + n - 1))

InfinityChars == <<"I", "n", "f", "i", "n", "i", "t", "y">>

\* A signed integer of any magnitude: a sign and the decimal digits of the
\* magnitude without leading zeros (<<>> for 0).
Signed(neg, ds) == [neg |-> neg, mag |-> StripLeadingZeros(ds)]

\* The exponent of a decimal literal whose mantissa ends before index m
\* of str: the signed integer e[sign]digits there, 0 when there is no such
\* part (an e that no digit follows is not part of the literal).
ExponentAt(str, m) ==
  LET hasE == m <= Len(str) /\ str[m] \in {"e", "E"}
      esgn == hasE /\ m + 1 <= Len(str) /\ str[m + 1] \in {"-", "+"}
      es   == IF esgn THEN m + 2 ELSE m + 1
      en   == IF hasE THEN DigitRun(str, es) ELSE 0
  IN IF en = 0 THEN Signed(FALSE, <<>>)
     ELSE Signed(esgn /\ str[m + 1] = "-", SubSeq(str, es, es + en - 1))

\* The value of the decimal literal with sign neg, integer digits int,
\* fraction digits frac and exponent exp: 0.d1d2...dn * 10^(lead + exp),
\* the digits without leading or trailing zeros, <<>> for zero.  lead is
\* a count of characters of the literal; exp is kept as written.
DecimalValue(neg, int, frac, exp) ==
  LET all == int \o frac
      lz  == LeadingZeros(all)
  IN IF lz = Len(all)
     THEN [nan |-> FALSE, neg |-> neg, inf |-> FALSE, digits |-> <<>>,
           lead |-> 0, exp |-> Signed(FALSE, <<>>)]
     ELSE [nan |-> FALSE, neg |-> neg, inf |-> FALSE,
           digits |-> SubSeq(all, lz + 1, Len(all) - TrailingZeros(all)),
           lead |-> Len(int) - lz, exp |-> exp]

\* The unsigned part of parseFloat: str from index d is Infinity, or a
\* decimal literal digits[.digits][exponent] or .digits[exponent], or
\* neither (NaN).
ParseUnsigned(str, d, neg) ==
  LET n   == DigitRun(str, d)
      dot == d + n <= Len(str) /\ str[d + n] = "."
      f   == IF dot THEN DigitRun(str, d + n + 1) ELSE 0
      m   == IF dot /\ (n > 0 \/ f > 0) THEN d + n + 1 + f ELSE d + n
  IN IF d + 7 <= Len(str) /\ SubSeq(str, d, d + 7) = InfinityChars
     THEN [nan |-> FALSE, neg |-> neg, inf |-> TRUE, digits |-> <<>>,
           lead |-> 0, exp |-> Signed(FALSE, <<>>)]
     ELSE IF n = 0 /\ f = 0
     THEN [nan |-> TRUE, neg |-> FALSE, inf |-> FALSE, digits |-> <<>>,
           lead |-> 0, exp |-> Signed(FALSE, <<>>)]
     ELSE DecimalValue(neg, SubSeq(str, d, d + n - 1),
                       SubSeq(str, d + n + 1, d + n + f), ExponentAt(str, m))

\* parseFloat(s): leading white space, an optional sign, then the longest
\* prefix that is Infinity or a decimal literal; NaN when there is none.
\* The result is NaN, or a sign with Infinity, or a sign with the exact
\* decimal value of the literal.
ParseFloat(s) ==
  LET str == ToStr(s)
      b   == SkipWs(str, 1)
      sgn == b <= Len(str) /\ str[b] \in {"-", "+"}
  IN ParseUnsigned(str, IF sgn THEN b + 1 ELSE b, sgn /\ str[b] = "-")

\* The decimal value from which a literal is read as the double 8.1 or a
\* greater one: the midpoint of the double nearest 8.1 and the double
\* below it, 0.digits * 10^point.  The double nearest 8.1 has an odd
\* significand, so the midpoint itself rounds down (strict).
Threshold_8_1 ==
  [digits |-> <<"8", "0", "9", "9", "9", "9", "9", "9", "9", "9", "9", "9", "9",
                "9", "9", "8", "7", "5", "6", "5", "5", "0", "2", "1", "2", "4",
                "1", "9", "8", "2", "4", "6", "7", "4", "7", "2", "5", "5", "3",
                "2", "5", "3", "1", "7", "3", "8", "2", "8", "1", "2", "5">>,
   point |-> 1, strict |-> TRUE]

\* The same for 7.1, whose nearest double has an even significand, so the
\* midpoint itself rounds up (not strict).
Threshold_7_1 ==
  [digits |-> <<"7", "0", "9", "9", "9", "9", "9", "9", "9", "9", "9", "9", "9",
                "9", "9", "9", "2", "0", "0", "6", "3", "9", "4", "2", "2", "2",
                "6", "9", "8", "8", "7", "2", "9", "0", "8", "9", "4", "9", "8",
                "5", "1", "9", "8", "9", "7", "4", "6", "0", "9", "3", "7", "5">>,
   point |-> 1, strict |-> FALSE]

\* Digit i of a digit sequence read as a fraction 0.d1d2..., 0 past its end.
DigitAt(ds, i) == IF i <= Len(ds) THEN DigitVal(ds[i]) ELSE 0

\* 0.a1a2... > 0.b1b2...
FractionGt(a, b) ==
  \E i \in 1..(Len(a) + Len(b)) :
     /\ DigitAt(a, i) > DigitAt(b, i)
     /\ \A j \in 1..(i - 1) : DigitAt(a, j) = DigitAt(b, j)

\* 0.a1a2... = 0.b1b2...
FractionEq(a, b) == \A i \in 1..(Len(a) + Len(b)) : DigitAt(a, i) = DigitAt(b, i)

\* The decimal digits of a natural number, <<>> for 0.
RECURSIVE NatDigits(_)
NatDigits(n) ==
  IF n = 0 THEN <<>>
  ELSE Append(NatDigits(n \div 10), DigitChars[(n % 10) + 1])

\* a > b for two magnitudes written without leading zeros.
MagGt(a, b) == Len(a) > Len(b) \/ (Len(a) = Len(b) /\ FractionGt(a, b))

\* x > k and x = k for a signed integer x of any magnitude and an integer k.
SignedGt(x, k) ==
  LET km == NatDigits(IF k < 0 THEN 0 - k ELSE k)
  IN IF x.neg /\ x.mag # <<>>
     THEN k < 0 /\ MagGt(km, x.mag)
     ELSE k < 0 \/ MagGt(x.mag, km)

SignedEq(x, k) ==
  /\ x.mag = NatDigits(IF k < 0 THEN 0 - k ELSE k)
  /\ (x.neg /\ x.mag # <<>>) = (k < 0)

\* x >= c for a parseFloat result x and the positive constant c whose
\* threshold is t; false for NaN.  The powers of ten are compared as
\* lead + exp against t.point, that is exp against t.point - lead.
FloatGe(x, t) ==
  /\ ~x.nan
  /\ ~x.neg
  /\ \/ x.inf
     \/ /\ x.digits # <<>>
        /\ \/ SignedGt(x.exp, t.point - x.lead)
           \/ /\ SignedEq(x.exp, t.point - x.lead)
              /\ \/ FractionGt(x.digits, t.digits)
                 \/ (~t.strict /\ FractionEq(x.digits, t.digits))

\* s.split('.')[0]: the part of s before its first '.'.
SplitFirst(s) ==
  LET k == CHOOSE k \in 1..(Len(s) + 1) :
              /\ \A m \in 1..(k - 1) : s[m] # "."
              /\ (k > Len(s) \/ s[k] = ".")
  IN SubSeq(s, 1, k - 1)

\* Outcome of a call that may throw.
Return(v) == [ok |-> TRUE, val |-> v]

Throw(e) == [ok |-> FALSE, val |-> e]

---------------------------------------------------------------------------
(* Literals of the source                                                  *)

DOWNLOAD_URI == "https://downloads.mongodb.org"

Re_ubuntu == <<"u", "b", "u", "n", "t", "u">>

Re_elementaryOS == <<"e", "l", "e", "m", "e", "n", "t", "a", "r", "y", " ", "O", "S">>

Re_suse == <<"s", "u", "s", "e">>

Re_rhel == <<"r", "h", "e", "l">>

Re_centos == <<"c", "e", "n", "t", "o", "s">>

Re_scientific == <<"s", "c", "i", "e", "n", "t", "i", "f", "i", "c">>

Re_fedora == <<"f", "e", "d", "o", "r", "a">>

Re_debian == <<"d", "e", "b", "i", "a", "n">>

Re_mint == <<"m", "i", "n", "t">>

Raspbian == <<"R", "a", "s", "p", "b", "i", "a", "n">>

Rel_1204 == <<"1", "2", ".", "0", "4">>

Rel_1404 == <<"1", "4", ".", "0", "4">>

Rel_1410 == <<"1", "4", ".", "1", "0">>

Rel_1604 == <<"1", "6", ".", "0", "4">>

\* The TypeError of reading .match of undefined.  The source fixes the
\* kind of the error; the message is the engine's (V8 since Node 16.9).
TypeErrorMatch == "TypeError: Cannot read properties of undefined (reading 'match')"

---------------------------------------------------------------------------
(* The per-distribution qualifier rules                                    *)

getDebianVersionString(os) ==
  LET release == ParseFloat(os.release) IN
  IF FloatGe(release, Threshold_8_1) THEN "debian81"
  ELSE IF FloatGe(release, Threshold_7_1) THEN "debian71"
  ELSE "debian"

\* Mutant of getFedoraVersionString: the first bound tested with >=.
getFedoraVersionString_Ge18(os) ==
  LET fedoraVer == ParseInt(os.release) IN
  IF NumGe(fedoraVer, 18) THEN "rhel70"
  ELSE IF NumLt(fedoraVer, 19) /\ NumGe(fedoraVer, 12) THEN "rhel62"
  ELSE IF NumLt(fedoraVer, 12) /\ NumGe(fedoraVer, 6) THEN "rhel55"
  ELSE "rhel"

\* Every comparison with NaN is false.
getFedoraVersionString(os) ==
  LET fedoraVer == ParseInt(os.release) IN
  IF NumGt(fedoraVer, 18) THEN "rhel70"
  ELSE IF NumLt(fedoraVer, 19) /\ NumGe(fedoraVer, 12) THEN "rhel62"
  ELSE IF NumLt(fedoraVer, 12) /\ NumGe(fedoraVer, 6) THEN "rhel55"
  ELSE "rhel"

\* Mutant of getRhelVersionString: the patterns lose their ^ anchor.
getRhelVersionString_Unanchored(os) ==
  LET release == os.release IN
  IF TruthyStr(release) THEN
    IF RegexTestCI(<<"7">>, release) THEN "rhel70"
    ELSE IF RegexTestCI(<<"6">>, release) THEN "rhel62"
    ELSE IF RegexTestCI(<<"5">>, release) THEN "rhel55"
    ELSE "rhel"
  ELSE "rhel"

getRhelVersionString(os) ==
  LET release == os.release IN
  IF TruthyStr(release) THEN
    IF RegexTestPrefix(<<"7">>, release) THEN "rhel70"
    ELSE IF RegexTestPrefix(<<"6">>, release) THEN "rhel62"
    ELSE IF RegexTestPrefix(<<"5">>, release) THEN "rhel55"
    ELSE "rhel"
  ELSE "rhel"

getElementaryOSVersionString(os) == "ubuntu1404"

getMintVersionString(os) == "ubuntu1404"

getLegacyVersionString(os) == ""

\* os.release.match(...) throws when release is undefined.
getSuseVersionString(os) ==
  IF os.release = UNDEF THEN Throw(TypeErrorMatch)
  ELSE IF RegexTestPrefix(<<"1", "1">>, os.release) THEN Return("suse" \o "11")
  ELSE IF RegexTestPrefix(<<"1", "2">>, os.release) THEN Return("suse" \o "12")
  ELSE Return("")

getUbuntuVersionString(os) ==
  LET majorVer == IF TruthyStr(os.release)
                  THEN ParseInt(SplitFirst(os.release))
                  ELSE NaN
  IN IF os.release = Rel_1204 THEN "ubuntu1204"
     ELSE IF os.release = Rel_1404 THEN "ubuntu1404"
     ELSE IF os.release = Rel_1410 THEN "ubuntu1410-clang"
     ELSE IF NumEq(majorVer, 14) THEN "ubuntu1404"
     ELSE IF os.release = Rel_1604 THEN "ubuntu1604"
     ELSE IF NumEq(majorVer, 16) THEN "ubuntu1604"
     ELSE "ubuntu1404"

\* Mutant of getLinuxOSVersionString: the tests of the chain in another
\* order (mint before debian, fedora before the RHEL family, suse first).
getLinuxOSVersionString_Reordered(os) ==
  IF RegexTestCI(Re_suse, os.dist) THEN getSuseVersionString(os)
  ELSE IF RegexTestCI(Re_ubuntu, os.dist) THEN Return(getUbuntuVersionString(os))
  ELSE IF RegexTestCI(Re_elementaryOS, os.dist) THEN Return(getElementaryOSVersionString(os))
  ELSE IF RegexTestCI(Re_fedora, os.dist) THEN Return(getFedoraVersionString(os))
  ELSE IF \/ RegexTestCI(Re_rhel, os.dist)
          \/ RegexTestCI(Re_centos, os.dist)
          \/ RegexTestCI(Re_scientific, os.dist) THEN Return(getRhelVersionString(os))
  ELSE IF RegexTestCI(Re_mint, os.dist) THEN Return(getMintVersionString(os))
  ELSE IF RegexTestCI(Re_debian, os.dist) THEN Return(getDebianVersionString(os))
  ELSE Return(getLegacyVersionString(os))

\* The console.warn of the fallback changes no state of the instance.
getLinuxOSVersionString(os) ==
  IF RegexTestCI(Re_ubuntu, os.dist) THEN Return(getUbuntuVersionString(os))
  ELSE IF RegexTestCI(Re_elementaryOS, os.dist) THEN Return(getElementaryOSVersionString(os))
  ELSE IF RegexTestCI(Re_suse, os.dist) THEN getSuseVersionString(os)
  ELSE IF \/ RegexTestCI(Re_rhel, os.dist)
          \/ RegexTestCI(Re_centos, os.dist)
          \/ RegexTestCI(Re_scientific, os.dist) THEN Return(getRhelVersionString(os))
  ELSE IF RegexTestCI(Re_fedora, os.dist) THEN Return(getFedoraVersionString(os))
  ELSE IF RegexTestCI(Re_debian, os.dist) THEN Return(getDebianVersionString(os))
  ELSE IF RegexTestCI(Re_mint, os.dist) THEN Return(getMintVersionString(os))
  ELSE Return(getLegacyVersionString(os))

---------------------------------------------------------------------------
(* Normalisation at construction                                           *)

\* Mutant of translatePlatform: the Raspbian test after the switch.
translatePlatform_SwitchFirst(platform, os) ==
  IF platform = "darwin" THEN Return("osx")
  ELSE IF platform = "win32" THEN Return("win32")
  ELSE IF platform = "linux" THEN Return("linux")
  ELSE IF platform = "elementary OS" THEN Return("linux")
  ELSE IF platform = "sunos" THEN Return("sunos5")
  ELSE IF TruthyOS(os) /\ os.dist = Raspbian THEN Return("src")
  ELSE Throw("unsupported OS " \o platform)

translatePlatform(platform, os) ==
  IF TruthyOS(os) /\ os.dist = Raspbian THEN Return("src")
  ELSE IF platform = "darwin" THEN Return("osx")
  ELSE IF platform = "win32" THEN Return("win32")
  ELSE IF platform = "linux" THEN Return("linux")
  ELSE IF platform = "elementary OS" THEN Return("linux")
  ELSE IF platform = "sunos" THEN Return("sunos5")
  ELSE Throw("unsupported OS " \o platform)

translateArch(arch, mongoPlatform) ==
  IF arch = "ia32" THEN
    IF mongoPlatform = "linux" THEN Return("i686")
    ELSE IF mongoPlatform = "win32" THEN Return("i386")
    ELSE Throw("unsupported architecture")
  ELSE IF arch = "x64" THEN Return("x86_64")
  ELSE Throw("unsupported architecture, ia32 and x64 are the only valid options")

\* The instance before its fields are assigned.
NoInstance == [platform |-> "", arch |-> "", ssl |-> "undefined", version |-> "", os |-> NoOS]

\* new MongoBinaryDownloadUrl(opts): the instance, or the error thrown.
Construct(o) ==
  LET p == translatePlatform(o.platform, o.os) IN
  IF ~p.ok THEN [ok |-> FALSE, error |-> p.val, inst |-> NoInstance]
  ELSE LET a == translateArch(o.arch, p.val) IN
       IF ~a.ok THEN [ok |-> FALSE, error |-> a.val, inst |-> NoInstance]
       ELSE [ok |-> TRUE, error |-> "",
             inst |-> [platform |-> p.val, arch |-> a.val, ssl |-> o.ssl,
                       version |-> o.version, os |-> o.os]]

---------------------------------------------------------------------------
(* The archive name                                                        *)

\* Mutant of getArchiveType: the src case falls to the default.
getArchiveType_NoSrc(t) ==
  IF t.platform = "win32" THEN "zip" ELSE "tgz"

getArchiveType(t) ==
  IF t.platform = "win32" THEN "zip"
  ELSE IF t.platform = "src" THEN "tar.gz"
  ELSE "tgz"

\* The ssl option is true, false or undefined; only true is truthy.
TruthySsl(ssl) == ssl = "true"

\* getArchiveName up to the test for the Linux qualifier.
NamePrefix(t) ==
  LET n1 == "mongodb-" \o t.platform
      n2 == IF TruthySsl(t.ssl) THEN n1 \o "-ssl" ELSE n1
  IN IF t.platform # "src" THEN n2 \o "-" \o t.arch ELSE n2

\* Mutant of NeedsLinuxOS: the 32-bit exclusion dropped.
NeedsLinuxOS_NoArchTest(t) == t.platform = "linux"

\* The condition under which getArchiveName computes a qualifier.
NeedsLinuxOS(t) == t.platform = "linux" /\ t.arch # "i686"

\* The local osString: undefined until the qualifier is computed.
NoOsString == [defined |-> FALSE, val |-> ""]

\* getArchiveName from the test 'if (osString)' to its return.
NameSuffix(t, name, osString) ==
  LET n1 == IF osString.defined /\ osString.val # ""
            THEN name \o "-" \o osString.val ELSE name
  IN IF t.platform # "src"
     THEN n1 \o "-" \o t.version \o "." \o getArchiveType(t)
     ELSE n1 \o "-r" \o t.version \o "." \o getArchiveType(t)

\* The template literal of getDownloadUrl.
DownloadUrl(t, archive) == DOWNLOAD_URI \o "/" \o t.platform \o "/" \o archive

---------------------------------------------------------------------------
(* Inputs                                                                  *)

DistNames ==
  { <<"U", "b", "u", "n", "t", "u", " ", "L", "i", "n", "u", "x">>,
    <<"U", "B", "U", "N", "T", "U">>,
    <<"e", "l", "e", "m", "e", "n", "t", "a", "r", "y", " ", "O", "S">>,
    <<"S", "U", "S", "E", " ", "L", "i", "n", "u", "x">>,
    <<"o", "p", "e", "n", "S", "U", "S", "E">>,
    <<"R", "H", "E", "L">>,
    <<"C", "e", "n", "t", "o", "s">>,
    <<"S", "c", "i", "e", "n", "t", "i", "f", "i", "c", " ", "L", "i", "n", "u", "x">>,
    <<"F", "e", "d", "o", "r", "a">>,
    <<"D", "e", "b", "i", "a", "n">>,
    <<"L", "i", "n", "u", "x", " ", "M", "i", "n", "t">>,
    <<"A", "r", "c", "h", " ", "L", "i", "n", "u", "x">>,
    <<"R", "a", "s", "p", "b", "i", "a", "n">>,
    <<"r", "a", "s", "p", "b", "i", "a", "n">>,
    <<"M", "i", "n", "t", " ", "D", "e", "b", "i", "a", "n">>,
    <<"F", "e", "d", "o", "r", "a", " ", "S", "U", "S", "E">>,
    <<"D", "e", "b", "i", "a", "n", " ", "U", "b", "u", "n", "t", "u">>,
    <<"C", "e", "n", "t", "O", "S", " ", "F", "e", "d", "o", "r", "a">> }

ReleaseStrings ==
  { <<>>,
    <<"1", "2", ".", "0", "4">>,
    <<"1", "4", ".", "0", "4">>,
    <<"1", "4", ".", "1", "0">>,
    <<"1", "4", ".", "5">>,
    <<"1", "6", ".", "0", "4">>,
    <<"1", "6", ".", "1", "0">>,
    <<"1", "8", ".", "0", "4">>,
    <<"4">>,
    <<"5">>,
    <<"5", ".", "1", "1">>,
    <<"6">>,
    <<"6", ".", "9">>,
    <<"7">>,
    <<"7", ".", "0">>,
    <<"7", ".", "1">>,
    <<"8">>,
    <<"8", ".", "0">>,
    <<"8", ".", "1">>,
    <<"9">>,
    <<"1", "1">>,
    <<"1", "1", ".", "4">>,
    <<"1", "2">>,
    <<"1", "2", ".", "3">>,
    <<"1", "3">>,
    <<"1", "5", ".", "1">>,
    <<"1", "8">>,
    <<"1", "8", ".", "9">>,
    <<"1", "9">>,
    <<"2", "0">>,
    <<"4", "2", ".", "3">>,
    <<"7", "0">>,
    <<"1", "1", "0">>,
    <<"a", "b", "c">>,
    <<"7", "x">>,
    <<"x", "7">>,
    <<"-", "7">>,
    <<" ", "1", "9">>,
    <<".", "5">>,
    <<"8", ".">>,
    <<"\t", "1", "9">>,
    <<"\n", "7">>,
    <<"U+00A0", "1", "6", ".", "1", "0">>,
    <<"4", "2", "9", "4", "9", "6", "7", "2", "9", "6">>,
    <<"-", "4", "2", "9", "4", "9", "6", "7", "2", "9", "6">>,
    <<"1", "e", "2">>,
    <<"7", "1", "e", "-", "1">>,
    <<"8", "e">>,
    <<"I", "n", "f", "i", "n", "i", "t", "y">>,
    <<"8", ".", "0", "9", "9", "9", "9", "9", "9", "9", "9", "9", "9", "9", "9",
      "9", "9", "9", "9", "9", "9", "9", "9">>,
    <<"8", ".", "0", "9", "9", "9", "9", "9", "9", "9", "9", "9", "9", "9", "9">>,
    <<"7", ".", "0", "9", "9", "9", "9", "9", "9", "9", "9", "9", "9", "9", "9",
      "9", "9", "9", "9", "9", "9">>,
    <<"0", ".", "0", "0", "0", "0", "0", "0", "8", "1", "e", "0", "0", "0", "0", "0", "0", "7">>,
    <<"0", ".", "0", "0", "7", "1", "e", "+", "3">>,
    <<"8", "1", "e", "-", "1", "0", "0", "0", "0", "0", "1">>,
    <<"1", "e", "1", "0", "0", "0", "0", "0", "2">>,
    <<"8", "1", "0", "e", "-", "2">>,
    <<"8", ".", "1", "e", "-", "0">> }

\* OS descriptors {dist, release?}.
Descriptors == [dist : DistNames, release : ReleaseStrings \cup {UNDEF}]

D_Ubuntu1604 == [dist |-> <<"U", "b", "u", "n", "t", "u">>, release |-> Rel_1604]

D_ArchLinux ==
  [dist |-> <<"A", "r", "c", "h", " ", "L", "i", "n", "u", "x">>, release |-> UNDEF]

D_Raspbian == [dist |-> Raspbian, release |-> UNDEF]

D_Centos8 == [dist |-> <<"C", "e", "n", "t", "o", "s">>, release |-> <<"8">>]

D_SuseNoRelease == [dist |-> <<"S", "U", "S", "E", " ", "L", "i", "n", "u", "x">>, release |-> UNDEF]

RawPlatforms == {"darwin", "win32", "linux", "elementary OS", "sunos", "irix"}

RawArchs == {"ia32", "x64", "i686", "arm"}

SslValues == {"true", "false", "undefined"}

Versions == {"4.0.0", "3.6.5"}

\* The options given to the constructor: every combination of platform,
\* arch, ssl and version with a few descriptors, and every descriptor on
\* linux/x64.
Opts ==
  [platform : RawPlatforms, arch : RawArchs, ssl : SslValues, version : Versions,
   os : {NoOS, D_Ubuntu1604, D_ArchLinux, D_Raspbian}]
  \cup
  [platform : {"linux"}, arch : {"x64"}, ssl : {"undefined"}, version : {"4.0.0"},
   os : Descriptors]

\* What the getos package can hand to its callback.
ProbeDescriptors == {D_Ubuntu1604, D_ArchLinux, D_Centos8, D_SuseNoRelease}

ProbeErrors == {"EACCES", "ENOENT"}

NoError == "null"

---------------------------------------------------------------------------
(* State                                                                   *)

VARIABLES
  opts,        \* the options the constructor was called with
  ctor,        \* outcome of the constructor: [ok, error]
  this,        \* the instance's fields: platform, arch, ssl, version, os
  calls,       \* the getArchiveName/getDownloadUrl calls, by number
  probeCalls,  \* number of invocations of the getos package, by the calls
               \* of getArchiveName/getDownloadUrl and by direct calls of getos()
  osWrites     \* number of assignments to this.os after construction

vars == <<opts, ctor, this, calls, probeCalls, osWrites>>

CallIds == 1..MaxCalls

\* A call that has not been made.
\*   pc       idle, awaitProbe (suspended at 'await this.getos()'),
\*            awaitArchive (getDownloadUrl suspended at 'await
\*            this.getArchiveName()', whose promise has settled),
\*            resolved, rejected
\*   inner    how getArchiveName's promise settled
\*   name     the local 'name' at the await
\*   os       the descriptor passed to getLinuxOSVersionString
\*   osString the local 'osString'
\*   probes   invocations of the probe made by this call
\*   cb       the arguments (e, os) the probe gave to its callback
\*   value    the name or error getArchiveName's promise settled with
\*   url      the string getDownloadUrl's promise resolved with
IdleCall ==
  [pc |-> "idle", kind |-> "none", inner |-> "pending", name |-> "",
   os |-> NoOS, osString |-> NoOsString, probes |-> 0,
   cb |-> [e |-> NoError, os |-> NoOS], value |-> "", url |-> ""]

Init ==
  /\ opts \in Opts
  /\ ctor = [ok |-> Construct(opts).ok, error |-> Construct(opts).error]
  /\ this = Construct(opts).inst
  /\ calls = [i \in CallIds |-> IdleCall]
  /\ probeCalls = 0
  /\ osWrites = 0

---------------------------------------------------------------------------
(* Operations                                                              *)

\* this.getos(): the promise rejects with the callback's e when e is set
\* (the resolve that follows a reject has no effect), and resolves with
\* the callback's os otherwise.
getos(cb) ==
  IF cb.e # NoError THEN Throw(cb.e) ELSE Return(cb.os)

\* getArchiveName's promise settles: a getArchiveName call is over, a
\* getDownloadUrl call resumes from its await in a later turn.
Settle(c, outcome, v) ==
  [c EXCEPT !.pc = IF c.kind = "getArchiveName" THEN outcome ELSE "awaitArchive",
            !.inner = outcome,
            !.value = v]

\* getArchiveName from the call of getLinuxOSVersionString to its return;
\* an exception thrown there rejects the promise.
AfterOS(t, c, os) ==
  LET r  == getLinuxOSVersionString(os)
      c1 == [c EXCEPT !.os = os]
  IN IF ~r.ok THEN Settle(c1, "rejected", r.val)
     ELSE LET osString == [defined |-> TRUE, val |-> r.val] IN
          Settle([c1 EXCEPT !.osString = osString], "resolved",
                 NameSuffix(t, c1.name, osString))

\* A call of kind getArchiveName or getDownloadUrl runs to its first
\* await: to the probe when the qualifier is needed and this.os is unset,
\* otherwise to the end of getArchiveName.
StartCall(i, kind) ==
  /\ LET c == [calls[i] EXCEPT !.kind = kind, !.name = NamePrefix(this)] IN
     IF NeedsLinuxOS(this)
     THEN IF ~TruthyOS(this.os)
          THEN /\ calls' = [calls EXCEPT ![i] = [c EXCEPT !.pc = "awaitProbe", !.probes = 1]]
               /\ probeCalls' = probeCalls + 1
          ELSE /\ calls' = [calls EXCEPT ![i] = AfterOS(this, c, this.os)]
               /\ probeCalls' = probeCalls
     ELSE /\ calls' = [calls EXCEPT ![i] = Settle(c, "resolved", NameSuffix(this, c.name, NoOsString))]
          /\ probeCalls' = probeCalls
  /\ UNCHANGED <<opts, ctor, this, osWrites>>

\* Invocations of the probe made by calls 1..n of getArchiveName and
\* getDownloadUrl.
RECURSIVE ProbesOfCalls(_)
ProbesOfCalls(n) == IF n = 0 THEN 0 ELSE ProbesOfCalls(n - 1) + calls[n].probes

\* Invocations of the probe made by direct calls of getos().
DirectProbes == probeCalls - ProbesOfCalls(MaxCalls)

\* A client calls the public method getos() directly: the probe is
\* invoked, and the promise returned to the client settles with what the
\* probe calls back; no field of the instance is read or written.
Getos ==
  /\ ctor.ok
  /\ DirectProbes < MaxGetos
  /\ probeCalls' = probeCalls + 1
  /\ UNCHANGED <<opts, ctor, this, calls, osWrites>>

\* Call i can be made: the instance exists and the calls are numbered in
\* the order they are made.
CanCall(i) ==
  /\ ctor.ok
  /\ calls[i].pc = "idle"
  /\ \A j \in CallIds : j < i => calls[j].pc # "idle"

GetArchiveName(i) ==
  /\ CanCall(i)
  /\ StartCall(i, "getArchiveName")

GetDownloadUrl(i) ==
  /\ CanCall(i)
  /\ StartCall(i, "getDownloadUrl")

\* The probe calls back with (e, os) and the call suspended on it resumes:
\* on an error the call is rejected; otherwise this.os is assigned and
\* getArchiveName runs to its end.
ProbeCallback(i, cb) ==
  /\ LET r == getos(cb)
         c == [calls[i] EXCEPT !.cb = cb]
     IN IF ~r.ok
        THEN /\ calls' = [calls EXCEPT ![i] = Settle(c, "rejected", r.val)]
             /\ this' = this
             /\ osWrites' = osWrites
        ELSE /\ this' = [this EXCEPT !.os = r.val]
             /\ osWrites' = osWrites + 1
             /\ calls' = [calls EXCEPT ![i] = AfterOS(this', c, this'.os)]
  /\ UNCHANGED <<opts, ctor, probeCalls>>

ProbeSucceeds(i, os) ==
  /\ calls[i].pc = "awaitProbe"
  /\ ProbeCallback(i, [e |-> NoError, os |-> os])

ProbeFails(i, e) ==
  /\ calls[i].pc = "awaitProbe"
  /\ ProbeCallback(i, [e |-> e, os |-> NoOS])

\* getDownloadUrl resumes from 'await this.getArchiveName()': it returns
\* the URL, or is rejected with the error the await rethrows.
DownloadUrlResume(i) ==
  /\ calls[i].pc = "awaitArchive"
  /\ calls' = [calls EXCEPT ![i] =
                 IF calls[i].inner = "resolved"
                 THEN [@ EXCEPT !.pc = "resolved", !.url = DownloadUrl(this, calls[i].value)]
                 ELSE [@ EXCEPT !.pc = "rejected"]]
  /\ UNCHANGED <<opts, ctor, this, probeCalls, osWrites>>

Next ==
  \/ \E i \in CallIds : GetArchiveName(i)
  \/ \E i \in CallIds : GetDownloadUrl(i)
  \/ \E i \in CallIds : \E os \in ProbeDescriptors : ProbeSucceeds(i, os)
  \/ \E i \in CallIds : \E e \in ProbeErrors : ProbeFails(i, e)
  \/ \E i \in CallIds : DownloadUrlResume(i)
  \/ Getos

Spec == Init /\ [][Next]_vars

---------------------------------------------------------------------------
(* Properties                                                              *)

\* The instance resolves a Linux distribution and was given no descriptor.
ProbingInstance ==
  ctor.ok /\ this.platform = "linux" /\ this.arch # "i686" /\ opts.os = NoOS

\* C1: on one instance (platform linux, arch not i686, no descriptor
\* supplied) the OS probe is invoked at most once over any sequence of
\* getArchiveName/getDownloadUrl calls, overlapping calls included.
C1_ProbeAtMostOnce == ProbingInstance => ProbesOfCalls(MaxCalls) <= 1

\* C2: after construction platform, arch, ssl and version keep their
\* values at construction, and os is the only field written: at most once,
\* from unset to a descriptor, never from one descriptor to another.
C2_FieldsWriteOnce ==
  [][ /\ this'.platform = this.platform
      /\ this'.arch = this.arch
      /\ this'.ssl = this.ssl
      /\ this'.version = this.version
      /\ this'.platform = Construct(opts).inst.platform
      /\ this'.arch = Construct(opts).inst.arch
      /\ this'.ssl = opts.ssl
      /\ this'.version = opts.version
      /\ (this'.os # this.os => this.os = NoOS /\ this'.os # NoOS)
      /\ osWrites' <= 1 ]_vars

RaspbianSupplied == opts.os # NoOS /\ opts.os.dist = Raspbian

\* C3: construction normalises the platform: a supplied descriptor whose
\* dist is Raspbian gives "src" whatever the raw platform; otherwise
\* darwin->osx, win32->win32, linux->linux, "elementary OS"->linux,
\* sunos->sunos5, and any other raw platform makes construction fail with
\* the unsupported-platform error; so a constructed instance has platform
\* in {osx, win32, linux, sunos5, src}.
C3_PlatformNormalized ==
  LET known == opts.platform \in {"darwin", "win32", "linux", "elementary OS", "sunos"}
      table == [darwin |-> "osx", win32 |-> "win32", linux |-> "linux",
                sunos |-> "sunos5"]
      mapped == IF opts.platform = "elementary OS" THEN "linux" ELSE table[opts.platform]
  IN /\ ctor.ok => this.platform \in {"osx", "win32", "linux", "sunos5", "src"}
     /\ (ctor.ok /\ RaspbianSupplied) => this.platform = "src"
     /\ (ctor.ok /\ ~RaspbianSupplied) => (known /\ this.platform = mapped)
     /\ (~RaspbianSupplied /\ ~known) =>
          (~ctor.ok /\ ctor.error = "unsupported OS " \o opts.platform)
     /\ (RaspbianSupplied \/ known) =>
          (ctor.ok \/ ctor.error \in
             {"unsupported architecture",
              "unsupported architecture, ia32 and x64 are the only valid options"})

\* An unrecognised raw platform with a Raspbian descriptor was constructed
\* as platform src.
C3_Witness ==
  ctor.ok /\ opts.platform = "irix" /\ RaspbianSupplied /\ this.platform = "src"

\* The name the archive-name rule gives for instance t and local osString q.
ExpectedName(t, q) ==
  LET ssl  == IF t.ssl = "true" THEN "-ssl" ELSE ""
      arch == IF t.platform # "src" THEN "-" \o t.arch ELSE ""
      qual == IF q.defined /\ q.val # "" THEN "-" \o q.val ELSE ""
      tail == IF t.platform = "src" THEN "-r" \o t.version \o ".tar.gz"
              ELSE IF t.platform = "win32" THEN "-" \o t.version \o ".zip"
              ELSE "-" \o t.version \o ".tgz"
  IN "mongodb-" \o t.platform \o ssl \o arch \o qual \o tail

\* C4: getArchiveName returns "mongodb-{platform}" + "-ssl" iff ssl is set
\* (right after the platform, before the arch) + "-{arch}" iff platform is
\* not src + "-{qualifier}" iff a qualifier was computed and is non-empty
\* + "-r{version}.tar.gz" for src, "-{version}.zip" for win32,
\* "-{version}.tgz" otherwise.
C4_ArchiveNameFormat ==
  \A i \in CallIds :
     calls[i].inner = "resolved" =>
        /\ calls[i].value = ExpectedName(this, calls[i].osString)
        /\ calls[i].osString.defined <=> (this.platform = "linux" /\ this.arch # "i686")
        /\ (calls[i].kind = "getDownloadUrl" /\ calls[i].pc = "resolved") =>
              calls[i].url = "https://downloads.mongodb.org/" \o this.platform
                                \o "/" \o calls[i].value

\* A name was returned with an ssl segment and a qualifier, and a
\* getDownloadUrl call returned its URL.
C4_Witness ==
  /\ \E i \in CallIds :
        /\ calls[i].inner = "resolved"
        /\ calls[i].osString.defined /\ calls[i].osString.val # ""
        /\ this.ssl = "true"
  /\ \E i \in CallIds : calls[i].pc = "resolved" /\ calls[i].kind = "getDownloadUrl"

\* The name of a linux instance with OS segment seg ("" for none).
LinuxName(seg) ==
  "mongodb-linux" \o (IF this.ssl = "true" THEN "-ssl" ELSE "") \o "-" \o this.arch
     \o seg \o "-" \o this.version \o ".tgz"

\* C5 as stated: the configuration platform linux, arch "i686" (such as
\* version 4.0.0 with os {dist: Ubuntu, release: 16.04}) resolves on the
\* legacy 32-bit path: no probe, no qualifier, and getArchiveName returns
\* "mongodb-linux-i686-4.0.0.tgz".
C5_Original ==
  (opts.platform = "linux" /\ opts.arch = "i686" /\ ~RaspbianSupplied) =>
     /\ ctor.ok
     /\ ProbesOfCalls(MaxCalls) = 0
     /\ \A i \in CallIds :
           calls[i].pc # "idle" =>
              /\ calls[i].inner = "resolved"
              /\ ~calls[i].osString.defined
              /\ (opts.version = "4.0.0" /\ opts.ssl # "true") =>
                    calls[i].value = "mongodb-linux-i686-4.0.0.tgz"

\* C5 amended: a configuration whose platform normalises to linux and
\* whose raw arch is "ia32" (which is normalised to i686) resolves on the
\* legacy 32-bit path: the constructor succeeds, no probe is invoked, no
\* qualifier is applied, and getArchiveName returns the name without OS
\* segment, "mongodb-linux-i686-4.0.0.tgz" for version 4.0.0 without ssl.
C5_Legacy32 ==
  (/\ opts.platform \in {"linux", "elementary OS"}
   /\ opts.arch = "ia32"
   /\ ~RaspbianSupplied) =>
     /\ ctor.ok
     /\ this.platform = "linux"
     /\ this.arch = "i686"
     /\ ProbesOfCalls(MaxCalls) = 0
     /\ \A i \in CallIds :
           calls[i].pc # "idle" =>
              /\ calls[i].inner = "resolved"
              /\ calls[i].probes = 0
              /\ ~calls[i].osString.defined
              /\ calls[i].value = LinuxName("")
              /\ (opts.version = "4.0.0" /\ opts.ssl # "true") =>
                    calls[i].value = "mongodb-linux-i686-4.0.0.tgz"

\* The example configuration with arch ia32 returned its archive name.
C5_Witness ==
  /\ opts = [platform |-> "linux", arch |-> "ia32", ssl |-> "undefined",
             version |-> "4.0.0", os |-> D_Ubuntu1604]
  /\ \E i \in CallIds :
        /\ calls[i].kind = "getArchiveName"
        /\ calls[i].pc = "resolved"
        /\ calls[i].value = "mongodb-linux-i686-4.0.0.tgz"

\* The release begins with character ch.
BeginsWith(release, ch) ==
  release # UNDEF /\ Len(release) >= 1 /\ release[1] = ch

\* The distribution names the chain tests before the RHEL family.
BeforeRhel(dist) ==
  \/ RegexTestCI(Re_ubuntu, dist)
  \/ RegexTestCI(Re_elementaryOS, dist)
  \/ RegexTestCI(Re_suse, dist)

\* The distribution is classified as RHEL, CentOS or Scientific.
IsRhelFamily(dist) ==
  /\ ~BeforeRhel(dist)
  /\ \/ RegexTestCI(Re_rhel, dist)
     \/ RegexTestCI(Re_centos, dist)
     \/ RegexTestCI(Re_scientific, dist)

\* The distribution is classified as Fedora.
IsFedora(dist) ==
  /\ ~BeforeRhel(dist)
  /\ ~IsRhelFamily(dist)
  /\ RegexTestCI(Re_fedora, dist)

\* Call i passed a descriptor to getLinuxOSVersionString and returned.
Qualified(i) == calls[i].os # NoOS /\ calls[i].inner = "resolved"

\* The RHEL rule with qualifier dflt when no release prefix matches.
RhelRule(i, dflt, seg) ==
  LET r == calls[i].os.release
      q == calls[i].osString.val
  IN /\ BeginsWith(r, "7") => q = "rhel70"
     /\ BeginsWith(r, "6") => q = "rhel62"
     /\ BeginsWith(r, "5") => q = "rhel55"
     /\ ~(BeginsWith(r, "7") \/ BeginsWith(r, "6") \/ BeginsWith(r, "5")) =>
           (q = dflt /\ calls[i].value = LinuxName(seg))

\* C6 as stated: for a RHEL, CentOS or Scientific distribution the
\* qualifier is rhel70 / rhel62 / rhel55 when the release begins with
\* 7 / 6 / 5, and the empty string when it matches none of these or is
\* missing, so that the archive name then carries no OS segment.
C6_Original ==
  \A i \in CallIds :
     (Qualified(i) /\ IsRhelFamily(calls[i].os.dist)) => RhelRule(i, "", "")

\* C6 amended: for a RHEL, CentOS or Scientific distribution the
\* qualifier is rhel70 / rhel62 / rhel55 when the release begins with
\* 7 / 6 / 5, and the bare string "rhel" when it matches none of these or
\* is missing, so that the archive name then carries the OS segment
\* "-rhel".
C6_RhelQualifier ==
  \A i \in CallIds :
     (Qualified(i) /\ IsRhelFamily(calls[i].os.dist)) => RhelRule(i, "rhel", "-rhel")

\* A name was returned for a probed RHEL-family descriptor whose release
\* matches no rule.
C6_Witness ==
  /\ \E i \in CallIds :
        /\ Qualified(i) /\ IsRhelFamily(calls[i].os.dist)
        /\ calls[i].os.release = <<"8">>
        /\ calls[i].cb.os = calls[i].os
  /\ opts.os = NoOS

\* The Fedora rule with qualifier dflt outside the three ranges.
FedoraRule(i, dflt) ==
  LET n == ParseInt(calls[i].os.release)
      q == calls[i].osString.val
  IN /\ NumGt(n, 18) => q = "rhel70"
     /\ (NumGe(n, 12) /\ ~NumGt(n, 18)) => q = "rhel62"
     /\ (NumGe(n, 6) /\ ~NumGt(n, 11)) => q = "rhel55"
     /\ (n.nan \/ NumLt(n, 6)) => q = dflt

\* C7 as stated: for a Fedora distribution with the release parsed as an
\* integer n, n > 18 gives rhel70, 12..18 gives rhel62, 6..11 gives
\* rhel55, and every other release (n < 6, or not a number) gives the
\* empty string.
C7_Original ==
  \A i \in CallIds :
     (Qualified(i) /\ IsFedora(calls[i].os.dist)) => FedoraRule(i, "")

\* C7 amended: for a Fedora distribution with the release parsed as an
\* integer n, n > 18 gives rhel70, 12..18 gives rhel62, 6..11 gives
\* rhel55, and every other release (n < 6, or not a number) gives the
\* bare string "rhel".
C7_FedoraQualifier ==
  \A i \in CallIds :
     (Qualified(i) /\ IsFedora(calls[i].os.dist)) => FedoraRule(i, "rhel")

\* A name was returned for Fedora release 18, the upper end of a range.
C7_Witness ==
  \E i \in CallIds :
     /\ Qualified(i) /\ IsFedora(calls[i].os.dist)
     /\ calls[i].os.release = <<"1", "8">>
     /\ calls[i].osString.val = "rhel62"

\* C8: resolution never fails because of the release value: on a
\* linux/x64 instance with a descriptor of any distribution whose release
\* is missing, non-numeric or matches no rule, getArchiveName returns a
\* name with that distribution's default or empty qualifier instead of
\* raising an error; a Suse descriptor whose release does not begin with
\* 11 or 12, or is absent, yields the empty qualifier.
C8_NeverFailsOnRelease ==
  \A i \in CallIds :
     /\ calls[i].os # NoOS => calls[i].inner = "resolved"
     /\ (/\ calls[i].os # NoOS
         /\ ~(RegexTestCI(Re_ubuntu, calls[i].os.dist)
                \/ RegexTestCI(Re_elementaryOS, calls[i].os.dist))
         /\ RegexTestCI(Re_suse, calls[i].os.dist)
         /\ ~RegexTestPrefix(<<"1", "1">>, calls[i].os.release)
         /\ ~RegexTestPrefix(<<"1", "2">>, calls[i].os.release)) =>
           (/\ calls[i].inner = "resolved"
            /\ calls[i].osString = [defined |-> TRUE, val |-> ""])

\* C9: a call can fail with a probe error only when the platform is
\* linux, the arch is not i686 and the instance holds no descriptor; when
\* the probe fails the call is rejected with exactly the probe's error,
\* the probe is not invoked again within that call, and the instance's
\* fields, the unset os slot included, are left unchanged.
C9_ProbeFailure ==
  [][ \A i \in CallIds :
        \* the probe calls back with an error: the call fails with it
        /\ (calls[i].pc = "awaitProbe" /\ calls'[i].cb.e # NoError) =>
              /\ this.platform = "linux" /\ this.arch # "i686"
              /\ this.os = NoOS
              /\ calls'[i].inner = "rejected"
              /\ calls'[i].value = calls'[i].cb.e
              /\ calls'[i].probes = 1
              /\ probeCalls' = probeCalls
              /\ this' = this
              /\ this'.os = NoOS
        \* a call rejected with a probe error is one whose probe failed
        /\ (calls[i].inner # "rejected" /\ calls'[i].inner = "rejected"
              /\ calls'[i].value \in ProbeErrors) =>
              /\ calls[i].pc = "awaitProbe"
              /\ calls'[i].cb.e = calls'[i].value
        \* getDownloadUrl is rejected with the same error
        /\ (calls[i].pc = "awaitArchive" /\ calls'[i].pc = "rejected") =>
              /\ calls'[i].value = calls[i].value
              /\ this' = this
              /\ probeCalls' = probeCalls ]_vars

\* The keywords of the classification in their order, the RHEL family as
\* one entry.
RuleKeywords ==
  << {Re_ubuntu}, {Re_elementaryOS}, {Re_suse}, {Re_rhel, Re_centos, Re_scientific},
     {Re_fedora}, {Re_debian}, {Re_mint} >>

\* Entry k matches: one of its keywords occurs in dist, case ignored.
RuleMatches(k, dist) == \E w \in RuleKeywords[k] : RegexTestCI(w, dist)

\* The number of the first matching entry, 0 when none matches.
FirstMatch(dist) ==
  IF \E k \in 1..7 : RuleMatches(k, dist)
  THEN CHOOSE k \in 1..7 :
          RuleMatches(k, dist) /\ \A j \in 1..(k - 1) : ~RuleMatches(j, dist)
  ELSE 0

\* What the qualifier rule of entry k gives for descriptor os.
RuleResult(k, os) ==
  CASE k = 1 -> Return(getUbuntuVersionString(os))
    [] k = 2 -> Return(getElementaryOSVersionString(os))
    [] k = 3 -> getSuseVersionString(os)
    [] k = 4 -> Return(getRhelVersionString(os))
    [] k = 5 -> Return(getFedoraVersionString(os))
    [] k = 6 -> Return(getDebianVersionString(os))
    [] k = 7 -> Return(getMintVersionString(os))
    [] OTHER -> Return("")

\* C10: the distribution name is classified by case-insensitive substring
\* match in the order ubuntu, elementary OS, suse, (rhel | centos |
\* scientific), fedora, debian, mint, the first matching entry alone
\* deciding the qualifier rule; a name matching none is no error: the
\* qualifier is empty and resolution continues, so that {4.0.0, linux,
\* x64, os.dist "Arch Linux"} gives "mongodb-linux-x86_64-4.0.0.tgz".
C10_Classification ==
  \A i \in CallIds :
     calls[i].os # NoOS =>
        LET k == FirstMatch(calls[i].os.dist)
            r == RuleResult(k, calls[i].os)
        IN /\ r.ok => (/\ calls[i].inner = "resolved"
                       /\ calls[i].osString = [defined |-> TRUE, val |-> r.val])
           /\ ~r.ok => calls[i].inner = "rejected"
           /\ k = 0 => (/\ calls[i].inner = "resolved"
                        /\ calls[i].osString.val = ""
                        /\ calls[i].value = LinuxName(""))
           /\ (/\ calls[i].os = D_ArchLinux
               /\ this.version = "4.0.0"
               /\ this.ssl # "true") =>
                 calls[i].value = "mongodb-linux-x86_64-4.0.0.tgz"

\* The Arch Linux example returned its name.
C10_Witness ==
  /\ opts = [platform |-> "linux", arch |-> "x64", ssl |-> "undefined",
             version |-> "4.0.0", os |-> D_ArchLinux]
  /\ \E i \in CallIds :
        /\ calls[i].kind = "getArchiveName"
        /\ calls[i].pc = "resolved"
        /\ calls[i].value = "mongodb-linux-x86_64-4.0.0.tgz"

=============================================================================
